---------------------------- MODULE Spec2Model ----------------------------
(***************************************************************************)
(* A model of server/ml/train_catboost.py: the batch job that loads a CSV  *)
(* of race entries, splits it, fits a CatBoost ranker, scores it with the  *)
(* two metric functions calculate_ndcg and calculate_accuracy, pickles the *)
(* model and prints a JSON summary.                                        *)
(*                                                                         *)
(* Three specifications share the module's variables:                      *)
(*   Spec            the whole run of train_catboost (one step per         *)
(*                   statement that can raise or write)                    *)
(*   SpecMetrics     calculate_ndcg and calculate_accuracy applied to      *)
(*                   bounded inputs                                        *)
(*   SpecImportance  the featureImportance list built from bounded         *)
(*                   importance vectors                                    *)
(*                                                                         *)
(* Numbers.  Scores and importances are floats in the program; the model   *)
(* draws them from small integer ranges, which keeps their order and their *)
(* ties.  The weight 1.0 / np.log2(i + 2) is irrational for most i; it is  *)
(* held in micro-units, floor(10^6 / log2(i + 2)).  Sums of these weights  *)
(* compare as the program's double sums do: both add the same weights in   *)
(* the same order, and two different weight sets differ by far more than   *)
(* the rounding of either representation.                                  *)
(***************************************************************************)
EXTENDS Integers, Sequences, FiniteSets, TLC

VARIABLES
    pc,             \* position in train_catboost / in the metric harness
    test_size,      \* config['testSize'], in quarters (1 = 0.25)
    y,              \* load_data: the rank column, one entry per row
    race_id,        \* load_data: the race_id column, or None
    n_features,     \* load_data: number of feature columns of X
    group_ids,      \* load_data: rows per race, or None
    train_rows,     \* train_test_split: the rows of X_train, in order
    test_rows,      \* train_test_split: the rows of X_test, in order
    train_groups,   \* train_catboost lines 68-75
    test_groups,
    y_test,         \* y[test_rows], the y_true of the metric functions
    predictions,    \* model.predict(X_test), the y_pred of the metrics
    k,              \* the k of the calculate_ndcg call under test
    ndcg,           \* what calculate_ndcg computed (its locals and result)
    accuracy,       \* what calculate_accuracy returned
    metrics,        \* ndcg4 / ndcg3 / ndcg2 / accuracy of the run
    importance,     \* model.get_feature_importance(), one per feature
    featureImportance, \* result["featureImportance"]
    run,            \* the MLflow run: "none", "active" or "ended"
    end_calls,      \* number of mlflow.end_run() calls made
    exc,            \* an exception is propagating
    stdout,         \* what was written to standard output, in order
    stderr,         \* what was written to standard error, in order
    model_file,     \* <outputPath>/catboost_model.pkl has been written
    exit_status     \* None while running, then the process's exit status

vars == <<pc, test_size, y, race_id, n_features, group_ids, train_rows,
          test_rows, train_groups, test_groups, y_test, predictions, k,
          ndcg, accuracy, metrics, importance, featureImportance, run,
          end_calls, exc, stdout, stderr, model_file, exit_status>>

\* Python's None, and a present value: an optional is a sequence of length
\* at most one.
None == <<>>

Some(x) == <<x>>

Val(o) == o[1]

(***************************************************************************)
(* Bounds of the model.                                                    *)
(***************************************************************************)
MaxLen == 3         \* longest y_true / y_pred given to a metric function
MaxScore == 2       \* predicted scores range over 0..MaxScore
MaxK == 4           \* k ranges over 1..MaxK
MaxRows == 2        \* most rows of the CSV of a run
MaxFeatures == 11   \* most features of an importance vector

Min(a, b) == IF a <= b THEN a ELSE b

(***************************************************************************)
(* The rank column: 1=win, 2=place, 3=show, 4=out.                         *)
(***************************************************************************)
Ranks == 1..4

Scores == 0..MaxScore

(***************************************************************************)
(* Python and numpy helpers.                                               *)
(***************************************************************************)
\* s[:n] for n >= 0
Take(s, n) == SubSeq(s, 1, Min(n, Len(s)))

\* s[n:] for n >= 0
Drop(s, n) == SubSeq(s, Min(n, Len(s)) + 1, Len(s))

\* The permutations of 1..n, as sequences.
Permutations_(n) ==
    {p \in [1..n -> 1..n] : \A i, j \in 1..n : i # j => p[i] # p[j]}

\* The orders of the rows S by ascending score.
RECURSIVE AscendingOrders(_, _)
AscendingOrders(S, y_pred) ==
    IF S = {} THEN {<<>>}
    ELSE LET low == {i \in S : \A j \in S : y_pred[i] <= y_pred[j]}
         IN  UNION {{<<i>> \o rest : rest \in AscendingOrders(S \ {i}, y_pred)} :
                       i \in low}

\* Argsort without the minus sign: ascending scores.
ArgsortAscending(y_pred) == AscendingOrders(1..Len(y_pred), y_pred)

\* The orders of the rows S by descending score: a row of the highest
\* score first, then an order of the rest.
RECURSIVE DescendingOrders(_, _)
DescendingOrders(S, y_pred) ==
    IF S = {} THEN {<<>>}
    ELSE LET top == {i \in S : \A j \in S : y_pred[i] >= y_pred[j]}
         IN  UNION {{<<i>> \o rest : rest \in DescendingOrders(S \ {i}, y_pred)} :
                       i \in top}

\* np.argsort(-y_pred): the row indices by descending score.  The default
\* sort kind is not stable, so the order among equal scores is whatever the
\* build does: every order that sorts the scores is a possible result.
Argsort(y_pred) == DescendingOrders(1..Len(y_pred), y_pred)

\* np.sort(y_true): ascending.
RECURSIVE InsertAsc(_, _)
InsertAsc(s, x) ==
    IF s = <<>> THEN <<x>>
    ELSE IF x < Head(s) THEN <<x>> \o s
    ELSE <<Head(s)>> \o InsertAsc(Tail(s), x)

\* Sort left out: the ideal ranking taken in file order.
Unsorted(s) == s

RECURSIVE Sort(_)
Sort(s) == IF s = <<>> THEN <<>> ELSE InsertAsc(Sort(Tail(s)), Head(s))

\* Argmax taking the last of the largest scores.
ArgmaxLast(y_pred) ==
    CHOOSE i \in 1..Len(y_pred) :
        /\ \A j \in 1..Len(y_pred) : y_pred[j] <= y_pred[i]
        /\ \A j \in (i + 1)..Len(y_pred) : y_pred[j] < y_pred[i]

\* np.argmax(y_pred): the first index of the largest score.
Argmax(y_pred) ==
    CHOOSE i \in 1..Len(y_pred) :
        /\ \A j \in 1..Len(y_pred) : y_pred[j] <= y_pred[i]
        /\ \A j \in 1..(i - 1) : y_pred[j] < y_pred[i]

(***************************************************************************)
(* calculate_ndcg                                                          *)
(***************************************************************************)
\* floor(10^6 / log2(i + 2)) for i = 0..7
DiscountTable ==
    <<1000000, 630929, 500000, 430676, 386852, 356207, 333333, 315464>>

\* 1.0 / np.log2(i + 2), i the zero-based position
Discount(i) == DiscountTable[i + 1]

\* The threshold one rank higher: show counted as well.
RelevantUpToShow(rel) == rel <= 3

\* `if rel <= 2`: the entries that earn gain
Relevant(rel) == rel <= 2

\* sum(1.0 / np.log2(i + 2) for i, rel in enumerate(ranked) if rel <= 2)
RECURSIVE GainFrom(_, _)
GainFrom(ranked, i) ==
    IF i > Len(ranked) THEN 0
    ELSE (IF Relevant(ranked[i]) THEN Discount(i - 1) ELSE 0)
         + GainFrom(ranked, i + 1)

DiscountedGain(ranked) == GainFrom(ranked, 1)

\* The division without its guard.
QuotientUnguarded(dcg, idcg) == [num |-> dcg, den |-> idcg]

\* `dcg / idcg if idcg > 0 else 0`.  A quotient is kept as the pair it is
\* made of; the integer 0 of the else branch is 0/1.
Quotient(dcg, idcg) ==
    IF idcg > 0 THEN [num |-> dcg, den |-> idcg] ELSE [num |-> 0, den |-> 1]

\* calculate_ndcg(y_true, y_pred, k), with `order` the result of
\* np.argsort(-y_pred).  Returns the function's locals and its result.
calculate_ndcg(y_true, order, kk) ==
    LET ranked_indices == Take(order, kk)
        ranked_true == [i \in 1..Len(ranked_indices) |-> y_true[ranked_indices[i]]]
        dcg == DiscountedGain(ranked_true)
        ideal_ranked == Take(Sort(y_true), kk)
        idcg == DiscountedGain(ideal_ranked)
    IN  [ranked_true |-> ranked_true, ideal_ranked |-> ideal_ranked,
         dcg |-> dcg, idcg |-> idcg, value |-> Quotient(dcg, idcg)]

(***************************************************************************)
(* calculate_accuracy: 10 stands for 1.0 and 0 for 0.0 (tenths).           *)
(***************************************************************************)
calculate_accuracy(y_true, y_pred) ==
    LET top1_pred == Argmax(y_pred)
    IN  IF y_true[top1_pred] <= 2 THEN 10 ELSE 0

(***************************************************************************)
(* SpecMetrics: the two metric functions on bounded inputs.                *)
(***************************************************************************)
Idle ==
    /\ test_size = 0 /\ y = <<>> /\ race_id = None /\ n_features = 0
    /\ group_ids = None /\ train_rows = <<>> /\ test_rows = <<>>
    /\ train_groups = None /\ test_groups = None
    /\ metrics = None /\ importance = <<>> /\ featureImportance = None
    /\ run = "none" /\ end_calls = 0 /\ exc = FALSE
    /\ stdout = <<>> /\ stderr = <<>> /\ model_file = FALSE
    /\ exit_status = None

InitMetrics ==
    /\ Idle
    /\ pc = "metric_inputs"
    /\ \E n \in 1..MaxLen :
          /\ y_test \in [1..n -> Ranks]
          /\ predictions \in [1..n -> Scores]
    /\ k \in 1..MaxK
    /\ ndcg = None
    /\ accuracy = None

CallNdcg ==
    /\ pc = "metric_inputs"
    /\ ndcg = None
    /\ \E order \in Argsort(predictions) :
          ndcg' = Some(calculate_ndcg(y_test, order, k))
    /\ UNCHANGED <<pc, test_size, y, race_id, n_features, group_ids,
                   train_rows, test_rows, train_groups, test_groups, y_test,
                   predictions, k, accuracy, metrics, importance,
                   featureImportance, run, end_calls, exc, stdout, stderr,
                   model_file, exit_status>>

CallAccuracy ==
    /\ pc = "metric_inputs"
    /\ accuracy = None
    /\ accuracy' = Some(calculate_accuracy(y_test, predictions))
    /\ UNCHANGED <<pc, test_size, y, race_id, n_features, group_ids,
                   train_rows, test_rows, train_groups, test_groups, y_test,
                   predictions, k, ndcg, metrics, importance,
                   featureImportance, run, end_calls, exc, stdout, stderr,
                   model_file, exit_status>>

NextMetrics == CallNdcg \/ CallAccuracy

SpecMetrics == InitMetrics /\ [][NextMetrics]_vars

(***************************************************************************)
(* load_data                                                               *)
(***************************************************************************)
\* The values a race_id cell takes in the model.
RaceIds == {1, 2}

\* Numbers of feature columns left in X after the drop of line 35.
FeatureCounts == {1, 2}

\* Number of rows of `column` holding race `r`.
RowsOf(column, r) == Cardinality({i \in 1..Len(column) : column[i] = r})

\* The set S of integers as an ascending sequence.
RECURSIVE Ascending(_)
Ascending(S) ==
    IF S = {} THEN <<>>
    ELSE LET m == CHOOSE x \in S : \A z \in S : x <= z
         IN  <<m>> \o Ascending(S \ {m})

\* df.groupby('race_id').size().values: one count per race present, in
\* ascending order of race_id.
GroupSizes(column) ==
    LET keys == Ascending({column[i] : i \in 1..Len(column)})
    IN  [g \in 1..Len(keys) |-> RowsOf(column, keys[g])]

(***************************************************************************)
(* train_catboost: split and group slicing                                 *)
(***************************************************************************)
\* config['testSize'] in quarters: 0.25, 0.5, 0.75.  These are exact in
\* binary floating point, so the double arithmetic of lines 65 and 71-72 is
\* exact on them.
TestSizes == {1, 2, 3}

\* train_test_split's n_test = ceil(test_size * n_samples)
NTest(n, ts) == (ts * n + 3) \div 4

\* int(len(group_ids) * (1 - test_size))
GroupCut(n_groups, ts) == (n_groups * (4 - ts)) \div 4

\* The slices taking the test share first: test_size where 1 - test_size
\* is meant.
SliceGroupsSwapped(groups, ts) ==
    [train |-> Take(groups, GroupCut(Len(groups), 4 - ts)),
     test |-> Drop(groups, GroupCut(Len(groups), 4 - ts))]

\* lines 71-72: group_ids[:cut] and group_ids[cut:]
SliceGroups(groups, ts) ==
    [train |-> Take(groups, GroupCut(Len(groups), ts)),
     test |-> Drop(groups, GroupCut(Len(groups), ts))]

(***************************************************************************)
(* train_catboost: the featureImportance list                              *)
(***************************************************************************)
\* The [:10] of line 170.
TopN == 10

\* The values an importance takes in the model.  CatBoost's importances
\* of a ranking loss (LossFunctionChange) may be negative.
ImportanceValues == {-2, 0, 1}

\* `item` put into the descending list `sorted` behind every entry that is
\* at least as large: sorted(..., reverse=True) is stable.
RECURSIVE InsertDescending(_, _)
InsertDescending(sorted, item) ==
    IF sorted = <<>> THEN <<item>>
    ELSE IF Head(sorted).importance >= item.importance
         THEN <<Head(sorted)>> \o InsertDescending(Tail(sorted), item)
         ELSE <<item>> \o sorted

\* sorted(importance_dict.items(), key=lambda x: x[1], reverse=True), the
\* items taken in feature order.
RECURSIVE SortedItems(_, _)
SortedItems(imp, n) ==
    IF n = 0 THEN <<>>
    ELSE InsertDescending(SortedItems(imp, n - 1),
                          [feature |-> n, importance |-> imp[n]])

\* The list sorted the other way round: reverse=True left out.
RECURSIVE InsertAscendingItem(_, _)
InsertAscendingItem(sorted, item) ==
    IF sorted = <<>> THEN <<item>>
    ELSE IF Head(sorted).importance <= item.importance
         THEN <<Head(sorted)>> \o InsertAscendingItem(Tail(sorted), item)
         ELSE <<item>> \o sorted

RECURSIVE SortedItemsAscending(_, _)
SortedItemsAscending(imp, n) ==
    IF n = 0 THEN <<>>
    ELSE InsertAscendingItem(SortedItemsAscending(imp, n - 1),
                             [feature |-> n, importance |-> imp[n]])

TopFeaturesAscending(imp) == Take(SortedItemsAscending(imp, Len(imp)), TopN)

\* lines 167-171: the first ten of the sorted items.  Features are named
\* by their column position (read_csv keeps column names distinct).
TopFeatures(imp) == Take(SortedItems(imp, Len(imp)), TopN)

(***************************************************************************)
(* Spec: one run of the script, from train_catboost(config) to exit.       *)
(***************************************************************************)
\* What the script writes to a stream: a line of text, or an object
\* serialised by json.dumps with the given top-level keys.
Line(text) == [kind |-> "line", text |-> text, keys |-> {}]

Json(keys) == [kind |-> "json", text |-> "", keys |-> keys]

\* The keys of `result`, lines 153-172.
ResultKeys ==
    {"modelPath", "metrics", "timestamp", "hyperparameters",
     "featureImportance"}

\* The statements of the try block, in order (lines 96-174).
TryBlock ==
    <<"log_params", "print_training", "construct", "fit",
      "print_evaluating", "predict", "metrics", "log_metrics", "save_model",
      "log_artifact", "importance", "result">>

InTry == {TryBlock[i] : i \in 1..Len(TryBlock)}

Init ==
    /\ pc = "mkdir"
    /\ test_size \in TestSizes
    /\ y = None /\ race_id = None /\ n_features = 0 /\ group_ids = None
    /\ train_rows = <<>> /\ test_rows = <<>>
    /\ train_groups = None /\ test_groups = None
    /\ y_test = <<>> /\ predictions = <<>>
    /\ k = 0 /\ ndcg = None /\ accuracy = None
    /\ metrics = None /\ importance = <<>> /\ featureImportance = None
    /\ run = "none" /\ end_calls = 0 /\ exc = FALSE
    /\ stdout = <<>> /\ stderr = <<>> /\ model_file = FALSE
    /\ exit_status = None

\* The variables by group, for UNCHANGED.
dataVars == <<y, race_id, n_features, group_ids>>

splitVars == <<train_rows, test_rows, y_test, train_groups, test_groups>>

evalVars == <<predictions, metrics, importance, featureImportance>>

harnessVars == <<k, ndcg, accuracy>>

runVars == <<run, end_calls>>

ioVars == <<stdout, stderr, model_file>>

\* A statement that only moves on.
Goto(from, to) ==
    /\ pc = from
    /\ pc' = to

\* line 57: Path(output_path).mkdir(parents=True, exist_ok=True)
MakeOutputDir ==
    /\ Goto("mkdir", "print_loading")
    /\ UNCHANGED <<test_size, dataVars, splitVars, evalVars, harnessVars,
                   runVars, ioVars, exc, exit_status>>

\* line 60: print(f"Loading data from {data_path}...")
PrintLoading ==
    /\ Goto("print_loading", "load_data")
    /\ stdout' = Append(stdout, Line("Loading data from"))
    /\ UNCHANGED <<test_size, dataVars, splitVars, evalVars, harnessVars,
                   runVars, stderr, model_file, exc, exit_status>>

\* load_data returns: lines 31-41 with a readable file that has a rank
\* column; the race_id column may be absent.
LoadDataReturns ==
    /\ pc = "load_data"
    /\ \E n \in 1..MaxRows :
          /\ y' \in {Some(col) : col \in [1..n -> Ranks]}
          /\ race_id' \in {None} \cup {Some(col) : col \in [1..n -> RaceIds]}
    /\ n_features' \in FeatureCounts
    /\ group_ids' = IF race_id' # None
                    THEN Some(GroupSizes(Val(race_id')))
                    ELSE None
    /\ pc' = "split"
    /\ UNCHANGED <<test_size, splitVars, evalVars, harnessVars, runVars,
                   ioVars, exc, exit_status>>

\* The handler of lines 42-44 writing to standard output: file=sys.stderr
\* left out.
LoadDataFailsOnStdout ==
    /\ pc = "load_data"
    /\ stdout' = Append(stdout, Line("Error loading data"))
    /\ exc' = TRUE
    /\ pc' = "propagate"
    /\ UNCHANGED <<test_size, dataVars, splitVars, evalVars, harnessVars,
                   runVars, stderr, model_file, exit_status>>

\* load_data raises: pd.read_csv fails on a missing or malformed file, or
\* df['rank'] on a file without that column; the handler of lines 42-44
\* prints the diagnostic to standard error and re-raises.
LoadDataFails ==
    /\ pc = "load_data"
    /\ stderr' = Append(stderr, Line("Error loading data"))
    /\ exc' = TRUE
    /\ pc' = "propagate"
    /\ UNCHANGED <<test_size, dataVars, splitVars, evalVars, harnessVars,
                   runVars, stdout, model_file, exit_status>>

\* lines 64-66: train_test_split(X, y, test_size=test_size, random_state=42)
\* shuffles the rows (some permutation, fixed by the seed), takes the first
\* n_test of them as the test partition and the rest as the train partition.
SplitReturns ==
    /\ pc = "split"
    /\ LET n == Len(Val(y))
           n_test == NTest(n, test_size)
       IN  /\ n - n_test > 0
           /\ \E perm \in Permutations_(n) :
                 /\ test_rows' = Take(perm, n_test)
                 /\ train_rows' = Drop(perm, n_test)
                 /\ y_test' = [i \in 1..n_test |-> Val(y)[perm[i]]]
    /\ pc' = "slice_groups"
    /\ UNCHANGED <<test_size, dataVars, train_groups, test_groups, evalVars,
                   harnessVars, runVars, ioVars, exc, exit_status>>

\* train_test_split raises ValueError when the train partition would be
\* empty.
SplitRaises ==
    /\ pc = "split"
    /\ Len(Val(y)) - NTest(Len(Val(y)), test_size) = 0
    /\ exc' = TRUE
    /\ pc' = "propagate"
    /\ UNCHANGED <<test_size, dataVars, splitVars, evalVars, harnessVars,
                   runVars, ioVars, exit_status>>

\* lines 68-75
AdjustGroups ==
    /\ pc = "slice_groups"
    /\ IF group_ids # None
       THEN /\ train_groups' = Some(SliceGroups(Val(group_ids), test_size).train)
            /\ test_groups' = Some(SliceGroups(Val(group_ids), test_size).test)
       ELSE /\ train_groups' = None
            /\ test_groups' = None
    /\ pc' = "pools"
    /\ UNCHANGED <<test_size, dataVars, train_rows, test_rows, y_test,
                   evalVars, harnessVars, runVars, ioVars, exc, exit_status>>

\* lines 78-90: the two Pool(...) constructions
CreatePools ==
    /\ Goto("pools", "start_run")
    /\ UNCHANGED <<test_size, dataVars, splitVars, evalVars, harnessVars,
                   runVars, ioVars, exc, exit_status>>

\* line 93: mlflow.start_run(run_name="catboost_training")
StartRun ==
    /\ Goto("start_run", "log_params")
    /\ run' = "active"
    /\ UNCHANGED <<test_size, dataVars, splitVars, evalVars, harnessVars,
                   end_calls, ioVars, exc, exit_status>>

\* A statement before the try block raises (mkdir, Pool, start_run): the
\* exception leaves train_catboost.
RaiseBeforeTry ==
    /\ pc \in {"mkdir", "pools", "start_run"}
    /\ exc' = TRUE
    /\ pc' = "propagate"
    /\ UNCHANGED <<test_size, dataVars, splitVars, evalVars, harnessVars,
                   runVars, ioVars, exit_status>>

\* lines 97-98: mlflow.log_param for every hyperparameter
LogParams ==
    /\ Goto("log_params", "print_training")
    /\ UNCHANGED <<test_size, dataVars, splitVars, evalVars, harnessVars,
                   runVars, ioVars, exc, exit_status>>

\* line 101: print("Training CatBoost model...")
PrintTraining ==
    /\ Goto("print_training", "construct")
    /\ stdout' = Append(stdout, Line("Training CatBoost model"))
    /\ UNCHANGED <<test_size, dataVars, splitVars, evalVars, harnessVars,
                   runVars, stderr, model_file, exc, exit_status>>

\* lines 102-112: CatBoostRanker(...)
ConstructModel ==
    /\ Goto("construct", "fit")
    /\ UNCHANGED <<test_size, dataVars, splitVars, evalVars, harnessVars,
                   runVars, ioVars, exc, exit_status>>

\* lines 114-118: model.fit(train_pool, eval_set=test_pool, verbose=100)
FitModel ==
    /\ Goto("fit", "print_evaluating")
    /\ UNCHANGED <<test_size, dataVars, splitVars, evalVars, harnessVars,
                   runVars, ioVars, exc, exit_status>>

\* line 121: print("Evaluating model...")
PrintEvaluating ==
    /\ Goto("print_evaluating", "predict")
    /\ stdout' = Append(stdout, Line("Evaluating model"))
    /\ UNCHANGED <<test_size, dataVars, splitVars, evalVars, harnessVars,
                   runVars, stderr, model_file, exc, exit_status>>

\* line 122: predictions = model.predict(X_test), one score per test row
Predict ==
    /\ Goto("predict", "metrics")
    /\ predictions' \in [1..Len(y_test) -> Scores]
    /\ UNCHANGED <<test_size, dataVars, splitVars, metrics, importance,
                   featureImportance, harnessVars, runVars, ioVars, exc,
                   exit_status>>

\* lines 126-129: the three calculate_ndcg calls and calculate_accuracy.
\* np.argsort is a function: the three calls see the same order.
ComputeMetrics ==
    /\ Goto("metrics", "log_metrics")
    /\ \E order \in Argsort(predictions) :
          metrics' = Some([ndcg4 |-> calculate_ndcg(y_test, order, 4).value,
                           ndcg3 |-> calculate_ndcg(y_test, order, 3).value,
                           ndcg2 |-> calculate_ndcg(y_test, order, 2).value,
                           accuracy |-> calculate_accuracy(y_test, predictions)])
    /\ UNCHANGED <<test_size, dataVars, splitVars, predictions, importance,
                   featureImportance, harnessVars, runVars, ioVars, exc,
                   exit_status>>

\* lines 132-135: mlflow.log_metric, four times
LogMetrics ==
    /\ Goto("log_metrics", "save_model")
    /\ UNCHANGED <<test_size, dataVars, splitVars, evalVars, harnessVars,
                   runVars, ioVars, exc, exit_status>>

\* lines 138-140: pickle.dump(model, f) into <outputPath>/catboost_model.pkl
SaveModel ==
    /\ Goto("save_model", "log_artifact")
    /\ model_file' = TRUE
    /\ UNCHANGED <<test_size, dataVars, splitVars, evalVars, harnessVars,
                   runVars, stdout, stderr, exc, exit_status>>

\* line 142: mlflow.log_artifact(model_path)
LogArtifact ==
    /\ Goto("log_artifact", "importance")
    /\ UNCHANGED <<test_size, dataVars, splitVars, evalVars, harnessVars,
                   runVars, ioVars, exc, exit_status>>

\* lines 145-150: model.get_feature_importance(), one value per feature
GetFeatureImportance ==
    /\ Goto("importance", "result")
    /\ importance' \in [1..n_features -> ImportanceValues]
    /\ UNCHANGED <<test_size, dataVars, splitVars, predictions, metrics,
                   featureImportance, harnessVars, runVars, ioVars, exc,
                   exit_status>>

\* lines 153-174: build `result` and print(json.dumps(result))
EmitResult ==
    /\ Goto("result", "finally")
    /\ featureImportance' = Some(TopFeatures(importance))
    /\ stdout' = Append(stdout, Json(ResultKeys))
    /\ UNCHANGED <<test_size, dataVars, splitVars, predictions, metrics,
                   importance, harnessVars, runVars, stderr, model_file, exc,
                   exit_status>>

\* A try block without its finally clause: the exception leaves the
\* function at once.
RaiseInTryNoFinally ==
    /\ pc \in InTry
    /\ exc' = TRUE
    /\ pc' = "propagate"
    /\ model_file' \in (IF pc = "save_model" THEN BOOLEAN ELSE {model_file})
    /\ UNCHANGED <<test_size, dataVars, splitVars, evalVars, harnessVars,
                   runVars, stdout, stderr, exit_status>>

\* A statement of the try block raises (lines 95-175): control goes to the
\* finally clause.  A failed save may or may not leave a file behind.
RaiseInTry ==
    /\ pc \in InTry
    /\ exc' = TRUE
    /\ pc' = "finally"
    /\ model_file' \in (IF pc = "save_model" THEN BOOLEAN ELSE {model_file})
    /\ UNCHANGED <<test_size, dataVars, splitVars, evalVars, harnessVars,
                   runVars, stdout, stderr, exit_status>>

\* lines 176-177: finally: mlflow.end_run(); then the pending exception,
\* if any, goes on, and otherwise the function returns.
EndRun ==
    /\ pc = "finally"
    /\ run' = "ended"
    /\ end_calls' = end_calls + 1
    /\ pc' = IF exc THEN "propagate" ELSE "return"
    /\ UNCHANGED <<test_size, dataVars, splitVars, evalVars, harnessVars,
                   ioVars, exc, exit_status>>

\* An exception leaves train_catboost: line 208 has no handler, so the
\* interpreter prints the traceback to standard error and exits with 1.
Uncaught ==
    /\ Goto("propagate", "exited")
    /\ stderr' = Append(stderr, Line("Traceback"))
    /\ exit_status' = Some(1)
    /\ UNCHANGED <<test_size, dataVars, splitVars, evalVars, harnessVars,
                   runVars, stdout, model_file, exc>>

\* train_catboost returns to line 208 and the script ends: exit status 0.
Exit ==
    /\ Goto("return", "exited")
    /\ exit_status' = Some(0)
    /\ UNCHANGED <<test_size, dataVars, splitVars, evalVars, harnessVars,
                   runVars, ioVars, exc>>

Next ==
    \/ MakeOutputDir
    \/ PrintLoading
    \/ LoadDataReturns
    \/ LoadDataFails
    \/ SplitReturns
    \/ SplitRaises
    \/ AdjustGroups
    \/ CreatePools
    \/ StartRun
    \/ RaiseBeforeTry
    \/ LogParams
    \/ PrintTraining
    \/ ConstructModel
    \/ FitModel
    \/ PrintEvaluating
    \/ Predict
    \/ ComputeMetrics
    \/ LogMetrics
    \/ SaveModel
    \/ LogArtifact
    \/ GetFeatureImportance
    \/ EmitResult
    \/ RaiseInTry
    \/ EndRun
    \/ Uncaught
    \/ Exit

Spec == Init /\ [][Next]_vars

(***************************************************************************)
(* SpecImportance: the featureImportance list on bounded importances.      *)
(***************************************************************************)
InitImportance ==
    /\ pc = "importance_inputs"
    /\ test_size = 0
    /\ y = None /\ race_id = None /\ group_ids = None
    /\ train_rows = <<>> /\ test_rows = <<>>
    /\ train_groups = None /\ test_groups = None
    /\ y_test = <<>> /\ predictions = <<>>
    /\ k = 0 /\ ndcg = None /\ accuracy = None
    /\ metrics = None
    /\ n_features \in 1..MaxFeatures
    /\ importance \in [1..n_features -> ImportanceValues]
    /\ featureImportance = None
    /\ run = "none" /\ end_calls = 0 /\ exc = FALSE
    /\ stdout = <<>> /\ stderr = <<>> /\ model_file = FALSE
    /\ exit_status = None

\* lines 167-171 applied to the importances drawn
BuildFeatureImportance ==
    /\ Goto("importance_inputs", "importance_done")
    /\ featureImportance' = Some(TopFeatures(importance))
    /\ UNCHANGED <<test_size, dataVars, splitVars, predictions, metrics,
                   importance, harnessVars, runVars, ioVars, exc,
                   exit_status>>

NextImportance == BuildFeatureImportance

SpecImportance == InitImportance /\ [][NextImportance]_vars

(***************************************************************************)
(* Properties of the run (checked under Spec).                             *)
(***************************************************************************)
\* Control has left train_catboost: by an exception or by returning.
LeftFunction == pc \in {"propagate", "return", "exited"}

\* C1: once mlflow.start_run has started the run, mlflow.end_run is called
\* exactly once before control leaves train_catboost, on the normal path
\* and when a statement of the try block raises; no execution leaves a
\* started run open, and end_run is never called twice.
C1_RunEndedExactlyOnce ==
    /\ end_calls <= 1
    /\ run = "none" => end_calls = 0
    /\ run = "active" => end_calls = 0 /\ ~LeftFunction
    /\ run = "ended" => end_calls = 1
    /\ (LeftFunction /\ run # "none") => (run = "ended" /\ end_calls = 1)

\* C1 witness: the process has died of an exception raised by the model's
\* construction or fit (the last line printed is the training line), and
\* the run was ended once.
C1_Witness ==
    /\ pc = "exited"
    /\ exit_status = Some(1)
    /\ exc
    /\ stdout = <<Line("Loading data from"), Line("Training CatBoost model")>>
    /\ run = "ended"
    /\ end_calls = 1

\* The load of the data has failed: the loading line is out, no data was
\* returned and an exception has left train_catboost.
LoadFailed ==
    /\ y = None
    /\ stdout # <<>>
    /\ pc \in {"propagate", "exited"}

\* C5: when dataPath cannot be read, load_data prints a diagnostic to
\* standard error and re-raises, the process ends with a non-zero status,
\* and on this path no tracking run is started, no model file is written
\* and no result JSON is emitted.
C5_LoadFailureStopsTheRun ==
    LoadFailed =>
        /\ exc
        /\ stderr # <<>>
        /\ stderr[1] = Line("Error loading data")
        /\ \A i \in 1..Len(stdout) : stdout[i].kind = "line"
        /\ stdout = <<Line("Loading data from")>>
        /\ run = "none"
        /\ end_calls = 0
        /\ ~model_file
        /\ metrics = None
        /\ pc = "exited" => exit_status # None /\ Val(exit_status) # 0

\* C5 witness: the process has ended after a failed load.
C5_Witness ==
    /\ LoadFailed
    /\ pc = "exited"
    /\ exit_status = Some(1)
    /\ stderr = <<Line("Error loading data"), Line("Traceback")>>

\* C6 as claimed: on a successful run standard output holds a single JSON
\* object with the keys modelPath, metrics, timestamp, hyperparameters and
\* featureImportance, and nothing else.
C6_StdoutIsOneJsonObject ==
    exit_status = Some(0) =>
        /\ Len(stdout) = 1
        /\ stdout[1].kind = "json"
        /\ {"modelPath", "metrics", "timestamp", "hyperparameters",
            "featureImportance"} \subseteq stdout[1].keys

\* The group sizes have been sliced (lines 68-72 are behind).
GroupsSliced ==
    /\ race_id # None
    /\ test_rows # <<>>
    /\ pc # "slice_groups"

RECURSIVE SumSeq(_)
SumSeq(s) == IF s = <<>> THEN 0 ELSE Head(s) + SumSeq(Tail(s))

Abs(x) == IF x < 0 THEN -x ELSE x

ListDone == featureImportance # None

\* The features the list names, and the shape every list has: one entry
\* per listed feature, each with that feature's importance.
Listed == {Val(featureImportance)[i].feature : i \in 1..Len(Val(featureImportance))}

WellFormedList ==
    /\ Len(Val(featureImportance)) = Min(10, Len(importance))
    /\ Cardinality(Listed) = Len(Val(featureImportance))
    /\ \A i \in 1..Len(Val(featureImportance)) :
          /\ Val(featureImportance)[i].feature \in 1..Len(importance)
          /\ Val(featureImportance)[i].importance =
                 importance[Val(featureImportance)[i].feature]

\* C9 as claimed: the list holds min(10, number of features) entries in
\* non-increasing order of importance magnitude, and every feature left out
\* has a magnitude no greater than that of every feature listed.
C9_TopTenByMagnitude ==
    ListDone =>
        /\ WellFormedList
        /\ \A i, j \in 1..Len(Val(featureImportance)) :
              i < j => Abs(Val(featureImportance)[i].importance)
                       >= Abs(Val(featureImportance)[j].importance)
        /\ \A f \in (1..Len(importance)) \ Listed : \A g \in Listed :
              Abs(importance[f]) <= Abs(importance[g])

\* C9 amended: the list holds min(10, number of features) entries in
\* non-increasing order of the signed importance value, and every feature
\* left out has a value no greater than that of every feature listed.
C9_TopTenByValue ==
    ListDone =>
        /\ WellFormedList
        /\ \A i, j \in 1..Len(Val(featureImportance)) :
              i < j => Val(featureImportance)[i].importance
                       >= Val(featureImportance)[j].importance
        /\ \A f \in (1..Len(importance)) \ Listed : \A g \in Listed :
              importance[f] <= importance[g]

\* C9 witness: more than ten features, and the one left out is the one of
\* the largest magnitude (a negative importance).
C9_Witness ==
    /\ ListDone
    /\ Len(importance) > 10
    /\ Len(Val(featureImportance)) = 10
    /\ \E f \in (1..Len(importance)) \ Listed :
          /\ importance[f] < 0
          /\ \A g \in Listed : Abs(importance[g]) < Abs(importance[f])
    /\ \E g, h \in Listed : importance[g] # importance[h]

(***************************************************************************)
(* Properties of the metric functions (checked under SpecMetrics).         *)
(***************************************************************************)
NdcgDone == ndcg # None

AccuracyDone == accuracy # None

\* y_pred orders the entries perfectly: a strictly higher score for every
\* entry with a strictly lower true rank.
PerfectOrder(y_true, y_pred) ==
    \A i, j \in 1..Len(y_true) : y_true[i] < y_true[j] => y_pred[i] > y_pred[j]

\* Number of entries whose true rank lies in S.
CountIn(y_true, S) == Cardinality({i \in 1..Len(y_true) : y_true[i] \in S})

\* The weights of the positions of `ranked` that hold a rank of S, summed.
RECURSIVE WeightOf(_, _, _)
WeightOf(ranked, S, i) ==
    IF i > Len(ranked) THEN 0
    ELSE (IF ranked[i] \in S THEN DiscountTable[i] ELSE 0)
         + WeightOf(ranked, S, i + 1)

\* C2: with a perfect prediction ordering and 1 <= k <= the number of
\* entries of true rank 1 or 2, calculate_ndcg returns exactly 1.0
\* (dcg / idcg with dcg = idcg > 0).
C2_PerfectOrderingGivesOne ==
    (/\ NdcgDone
     /\ PerfectOrder(y_test, predictions)
     /\ k <= CountIn(y_test, {1, 2}))
    => /\ Val(ndcg).value.den > 0
       /\ Val(ndcg).value.num = Val(ndcg).value.den

\* C2 witness: a perfect ordering with a tie among equal ranks and an
\* unplaced entry, k = 2 placed entries, scored.
C2_Witness ==
    /\ NdcgDone
    /\ PerfectOrder(y_test, predictions)
    /\ k = 2
    /\ CountIn(y_test, {1, 2}) = 2
    /\ CountIn(y_test, {3, 4}) >= 1
    /\ Val(ndcg).value = [num |-> Val(ndcg).idcg, den |-> Val(ndcg).idcg]

\* C3: when no entry of y_true is <= 2, calculate_ndcg returns 0 for every
\* y_pred and k; and no call divides by a zero ideal gain.
C3_ZeroWithoutPlaced ==
    NdcgDone =>
        /\ Val(ndcg).value.den # 0
        /\ Val(ndcg).idcg = 0 => Val(ndcg).value = [num |-> 0, den |-> 1]
        /\ CountIn(y_test, {1, 2}) = 0 => Val(ndcg).value.num = 0

\* C3 witness: a call on a vector of ranks 3 and 4 only.
C3_Witness ==
    /\ NdcgDone
    /\ CountIn(y_test, {1, 2}) = 0
    /\ CountIn(y_test, {3}) >= 1
    /\ Val(ndcg).idcg = 0
    /\ Val(ndcg).value.num = 0

\* The first row holding the highest score.
IsFirstTop(y_pred, i) ==
    /\ \A j \in 1..Len(y_pred) : y_pred[j] <= y_pred[i]
    /\ \A j \in 1..Len(y_pred) : y_pred[j] = y_pred[i] => i <= j

\* C4: calculate_accuracy returns 1.0 exactly when the first row with the
\* highest predicted score has true rank <= 2, and 0.0 otherwise; no other
\* row's true rank enters.
C4_AccuracyIsTop1 ==
    AccuracyDone =>
        \A i \in 1..Len(predictions) :
            IsFirstTop(predictions, i) =>
                Val(accuracy) = (IF y_test[i] \in {1, 2} THEN 10 ELSE 0)

\* C4 witness: scores tie for the top, the first tied row is placed and
\* a later tied row is not, and the result is 1.0.
C4_Witness ==
    /\ AccuracyDone
    /\ Val(accuracy) = 10
    /\ \E i, j \in 1..Len(predictions) :
          /\ i < j
          /\ IsFirstTop(predictions, i)
          /\ predictions[j] = predictions[i]
          /\ y_test[i] = 2
          /\ y_test[j] = 4

\* C7 as claimed: an entry earns gain in DCG and IDCG, and the top-scored
\* entry yields accuracy 1.0, precisely for true ranks 1, 2 and 3.
C7_PlacedIsTopThree ==
    /\ NdcgDone =>
          /\ Val(ndcg).dcg = WeightOf(Val(ndcg).ranked_true, {1, 2, 3}, 1)
          /\ Val(ndcg).idcg = WeightOf(Val(ndcg).ideal_ranked, {1, 2, 3}, 1)
    /\ AccuracyDone =>
          \A i \in 1..Len(predictions) :
              IsFirstTop(predictions, i) =>
                  (Val(accuracy) = 10 <=> y_test[i] \in {1, 2, 3})

\* C7 amended: an entry earns gain in DCG and IDCG, and the top-scored entry
\* yields accuracy 1.0, precisely for true ranks 1 and 2; ranks 3 and 4
\* earn nothing.
C7_PlacedIsTopTwo ==
    /\ NdcgDone =>
          /\ Val(ndcg).dcg = WeightOf(Val(ndcg).ranked_true, {1, 2}, 1)
          /\ Val(ndcg).idcg = WeightOf(Val(ndcg).ideal_ranked, {1, 2}, 1)
    /\ AccuracyDone =>
          \A i \in 1..Len(predictions) :
              IsFirstTop(predictions, i) =>
                  (Val(accuracy) = 10 <=> y_test[i] \in {1, 2})

\* C7 witness: both metrics computed with a rank-3 entry scored highest:
\* it earns no gain and the accuracy is 0.0.
C7_Witness ==
    /\ NdcgDone
    /\ AccuracyDone
    /\ Val(ndcg).ranked_true[1] = 3
    /\ y_test[Argmax(predictions)] = 3
    /\ CountIn(y_test, {1, 2}) >= 1
    /\ Val(accuracy) = 0
    /\ Val(ndcg).dcg < Val(ndcg).idcg

\* C10: calculate_ndcg returns a value in [0, 1]: the discounted gain of
\* the top-k predictions never exceeds the ideal discounted gain.
C10_NdcgInUnitInterval ==
    NdcgDone =>
        /\ 0 <= Val(ndcg).dcg
        /\ Val(ndcg).dcg <= Val(ndcg).idcg
        /\ Val(ndcg).value.den > 0
        /\ 0 <= Val(ndcg).value.num
        /\ Val(ndcg).value.num <= Val(ndcg).value.den

\* C10 witness: a result strictly between 0 and 1.
C10_Witness ==
    /\ NdcgDone
    /\ 0 < Val(ndcg).value.num
    /\ Val(ndcg).value.num < Val(ndcg).value.den

=============================================================================
